---- MODULE Spec2Model ----
(***************************************************************************)
(* Crawl-job orchestration of the savings-bank disclosure scraper.         *)
(*                                                                         *)
(* Job A  = app.py _scraping_worker  (first pass, retry rounds, hand-off   *)
(*          signal, ZIP, AI summary workbook)                              *)
(* Job B  = app.py _disclosure_worker (hand-off wait, DisclosureDownloader,*)
(*          PDF extraction, merge wait, merge)                             *)
(* Merge  = pdf_delinquency_extractor.patch_excel_with_delinquency         *)
(*                                                                         *)
(* Binding of calls.  app.py calls create_driver(logger=...),              *)
(* scrape_bank(bank, driver=driver) and _cleanup_driver(driver).  The      *)
(* scraper_core.py of the sources defines create_driver(timeout) and       *)
(* scrape_bank(bank_name, progress_callback), and no _cleanup_driver.      *)
(* Each function is modelled by its body in the sources: scrape_bank opens *)
(* and closes its own session in every attempt and ignores the session of  *)
(* its caller; _cleanup_driver is modelled from the specification's        *)
(* teardown (quit, idempotent).  scrape_bank catches every exception of    *)
(* its pipeline, so the except branches around its calls in                *)
(* _scraping_worker are never entered and have no action here.             *)
(***************************************************************************)
EXTENDS Integers, Sequences, FiniteSets, TLC

\* ---------------------------------------------------------------- bounds
\* number of selected banks when both workers run
MaxBanks == 1
\* number of selected banks when Job A is audited alone
MaxScrapeBanks == 2
\* number of selected banks when the first pass runs past a periodic recycle
MaxRecycleBanks == 11
\* number of selected banks when the download loop is stopped
MaxStopBanks == 2

\* ------------------------------------------------------ program constants
MAX_RETRIES == 2
MAX_RETRY_ROUNDS == 2
RECYCLE_EVERY == 10
HANDOFF_TIMEOUT == 1800
HANDOFF_SLEEP == 5
MERGE_WAIT_TIMEOUT == 600
MERGE_WAIT_SLEEP == 3

BANKS == <<"DB", "HB", "JT", "KB", "NH", "OK", "BNK", "IBK", "KS", "MS",
           "SY", "WR", "SBI">>

VARIABLES
  selected_banks,     \* the banks selected for the run (argument of both workers)
  \* ---- Job A (_scraping_worker)
  pcA,                \* position of the worker
  phaseA,             \* shared['scraping_progress']['phase']
  scraping_running,   \* shared['scraping_running']
  chrome_phase_done,  \* shared['chrome_phase_done']
  driver,             \* the worker's own session: "none" | "alive" | "quit"
  idx,                \* index of the first-pass loop (0-based)
  results,            \* the worker's local results list
  retry_round,        \* retry_round of the retry loop
  failed_indices,     \* failed_indices of the current round (1-based positions)
  retry_idx,          \* position in failed_indices (1-based)
  raised,             \* an exception is propagating through the inner finally
  sharedResultsA,     \* shared['results']
  summary_excel_path, \* shared['summary_excel_path'] is set
  df,                 \* df of generate_summary_excel: the rows it saves
  \* ---- BankScraper.scrape_bank (called by Job A)
  sbBank,             \* bank_name argument
  attempt,            \* attempt of the attempt loop
  sbDriver,           \* the attempt's session: "none" | "alive"
  sbRet,              \* returned (filepath, success): "pending" | "ok" | "failed"
  \* ---- history of Job A used by the properties
  audit,              \* whether attempts are counted in this behaviour
  attempts,           \* per target: iterations of the attempt loop so far
  persisted,          \* targets for which some attempt wrote its workbook
  sawOtherFailure,    \* a failure other than selection/extraction happened
  sessionFailed,      \* the last pipeline attempt ended in an exception
  recycleHist,        \* last memory reading of _should_recycle, last recycle
  \* ---- Job B (_disclosure_worker and its DisclosureDownloader)
  pcB,                \* position of the worker
  phaseB,             \* shared['progress']['phase']
  running,            \* shared['running']
  waited,             \* the local 'waited' of the two polling loops
  logsB,              \* shared['logs'], of which the time-out notice is kept
  dlDriver,           \* downloader.driver: "none" | "alive" | "quit"
  bank_list,          \* bank_list of the worker (names)
  dl_i,               \* i of download_all (0-based)
  dlResults,          \* downloader.results
  sharedResultsB,     \* shared['results']
  delinquency_data,   \* delinquency_data is a non-empty map
  merge_done,         \* shared['merge_done']
  is_running,         \* downloader.is_running
  progress,           \* progress.json: 'completed' and 'current_index'
  start_index,        \* start_index of the desktop download thread
  runs,               \* download runs started by the desktop thread
  downloadLog,        \* targets downloaded since the checkpoint was last reset
  \* ---- session creation (both jobs)
  chrome_init,        \* _chrome_init_lock and the creations in progress
  \* ---- Merge step (patch_excel_with_delinquency)
  sheet,              \* the sheet of the summary workbook: header and rows
  delinquency_data_map, \* the delinquency_data argument, in dict order
  appliedMaps,        \* the maps of the applications made so far, in order
  patchRet            \* value returned by the last application

SelectedSet == {selected_banks[k] : k \in 1..Len(selected_banks)}

varsA == <<selected_banks, pcA, phaseA, scraping_running, chrome_phase_done, driver, idx,
           results, retry_round, failed_indices, retry_idx, raised,
           sharedResultsA, summary_excel_path, df, sbBank, attempt, sbDriver,
           sbRet, audit, attempts, persisted, sawOtherFailure, sessionFailed,
           recycleHist>>

varsB == <<pcB, phaseB, running, waited, logsB, dlDriver, bank_list, dl_i,
           dlResults, sharedResultsB, delinquency_data, merge_done,
           is_running, progress, downloadLog, start_index, runs>>

\* the checkpoint with the downloads it stands for
ckpt == <<progress, downloadLog>>

\* state of the desktop download thread
varsR == <<start_index, runs>>

varsM == <<sheet, delinquency_data_map, appliedMaps, patchRet>>

vars == <<varsA, varsB, varsM, chrome_init>>

\* ------------------------------------------------------------- helpers
\* variant of Result: every target is recorded as a success
Result_AlwaysSuccess(bank, success) ==
  [bank |-> bank, success |-> TRUE, filepath |-> "xlsx"]

Result(bank, success) ==
  [bank |-> bank, success |-> success,
   filepath |-> IF success THEN "xlsx" ELSE "None"]

\* app.py:2038  [i for i, r in enumerate(results) if not r.get('success')]
RECURSIVE FailedFrom(_, _)
FailedFrom(rs, k) ==
  IF k > Len(rs) THEN <<>>
  ELSE IF ~rs[k].success THEN <<k>> \o FailedFrom(rs, k + 1)
       ELSE FailedFrom(rs, k + 1)

\* variant of ShouldRecycle: the first target counts as a tenth target
ShouldRecycle_NoFirstGuard(i, memHigh) ==
  (i % RECYCLE_EVERY = 0) \/ memHigh

\* variant of FailedIndices: every target counts as failed
FailedIndices_All(rs) == [k \in 1..Len(rs) |-> k]

FailedIndices(rs) == FailedFrom(rs, 1)

\* app.py:1956-1966  _should_recycle(idx); memHigh = memory percent > 75
ShouldRecycle(i, memHigh) ==
  (i > 0 /\ i % RECYCLE_EVERY = 0) \/ memHigh

\* spec 4.1 teardown(session): closes the resource, idempotent
CleanupDriver(d) == IF d = "none" THEN "none" ELSE "quit"

\* history is kept only in behaviours that audit Job A
CountAttempt(bank) ==
  IF audit THEN [attempts EXCEPT ![bank] = @ + 1] ELSE attempts

\* downloader_core.py:687-695  the checkpoint when there is no progress file,
\* and the one reset_progress writes
NoProgress == [completed |-> <<>>, current_index |-> 0]

\* downloader_core.py:675-685  _save_progress: the name is appended to
\* 'completed' unless it is there, current_index is overwritten
SaveProgress(p, current_index, bank_name) ==
  [completed |-> IF \E k \in 1..Len(p.completed) : p.completed[k] = bank_name
                 THEN p.completed
                 ELSE Append(p.completed, bank_name),
   current_index |-> current_index]

\* whether the attempt that just ended raised inside the pipeline
NoteSession(exc) == audit /\ exc

NoteFailure(other) ==
  IF audit THEN sawOtherFailure \/ other ELSE sawOtherFailure

NotePersisted(bank) ==
  IF audit THEN persisted \cup {bank} ELSE persisted

NoteMemory(memHigh) ==
  IF audit THEN [recycleHist EXCEPT !.mem = memHigh] ELSE recycleHist

NoteRecycle(i) ==
  IF audit THEN [recycleHist EXCEPT !.at = i] ELSE recycleHist

\* scraper_core.py:49  _chrome_init_lock, free at import; no creation runs.
\* Creations are followed from their start to their end only in the
\* behaviours that track them, elsewhere a creation is one step.
ChromeInit(track) == [track |-> track, lock |-> "free", busy |-> {}]

\* the creation of a session by job who is over: scraper_core.py:178-181
\* releases the lock in the finally of create_driver
CreationEnds(who) ==
  /\ chrome_init.track => who \in chrome_init.busy
  /\ chrome_init' = [chrome_init EXCEPT
                       !.busy = @ \ {who},
                       !.lock = IF @ = who THEN "free" ELSE @]

\* ------------------------------------------------------------- Init
InitA ==
  /\ pcA = "start"
  /\ phaseA = "scraping"
  /\ scraping_running = TRUE
  /\ chrome_phase_done = FALSE
  /\ driver = "none"
  /\ idx = 0
  /\ results = <<>>
  /\ retry_round = 0
  /\ failed_indices = <<>>
  /\ retry_idx = 0
  /\ raised = FALSE
  /\ sharedResultsA = <<>>
  /\ summary_excel_path = FALSE
  /\ df = <<>>
  /\ sbBank = "-"
  /\ attempt = 0
  /\ sbDriver = "none"
  /\ sbRet = "pending"
  /\ attempts = [b \in SelectedSet |-> 0]
  /\ persisted = {}
  /\ sawOtherFailure = FALSE
  /\ sessionFailed = FALSE
  /\ recycleHist = [mem |-> FALSE, at |-> -1]

\* downloader_core.py:100-131  a worker that has not started and a downloader
\* without session, results or checkpoint
InitDownloader ==
  /\ phaseB = "init"
  /\ running = TRUE
  /\ waited = 0
  /\ logsB = {}
  /\ dlDriver = "none"
  /\ bank_list = <<>>
  /\ dl_i = 0
  /\ dlResults = <<>>
  /\ sharedResultsB = <<>>
  /\ delinquency_data = FALSE
  /\ merge_done = FALSE
  /\ is_running = TRUE
  /\ progress = NoProgress
  /\ start_index = 0
  /\ runs = 0
  /\ downloadLog = <<>>

InitB ==
  /\ pcB = "b_start"
  /\ InitDownloader

\* no workbook is being merged
InitNoMerge ==
  /\ sheet = [hasPrior |-> TRUE, hasCurrent |-> TRUE, rows |-> <<>>]
  /\ delinquency_data_map = <<>>
  /\ appliedMaps = <<>>
  /\ patchRet = FALSE

\* app.py:1467  selected_banks lists distinct banks of Config.BANKS
Init ==
  /\ selected_banks = SubSeq(BANKS, 1, MaxBanks)
  /\ InitA /\ InitB /\ InitNoMerge /\ audit = FALSE
  /\ chrome_init = ChromeInit(FALSE)

InitScrape ==
  /\ selected_banks = SubSeq(BANKS, 1, MaxScrapeBanks)
  /\ InitA /\ InitB /\ InitNoMerge /\ audit = TRUE
  /\ chrome_init = ChromeInit(FALSE)

\* ================================================================ Merge
\* patch_excel_with_delinquency as a function of the sheet and the map.
\* Names are sequences of tokens; the token "S" stands for the suffix
\* "저축은행".  Cell values: "None" is an empty cell, "f0.0" "f1.5" "f2.5" are
\* the floats 0.0 1.5 2.5, everything else is the string itself.

\* Python: x in y, for strings
Contains(x, y) ==
  \E k \in 0..(Len(y) - Len(x)) : SubSeq(y, k + 1, k + Len(x)) = x

\* pdf_delinquency_extractor.py:665-666  name.replace("저축은행", "").strip()
RECURSIVE Clean(_)
Clean(name) ==
  IF name = <<>> THEN <<>>
  ELSE IF Head(name) = "S" THEN Clean(Tail(name))
       ELSE <<Head(name)>> \o Clean(Tail(name))

\* pdf_delinquency_extractor.py:662-669  the tests made on one key of the loop
LooseMatch(pdf_bank, bank_name) ==
  \/ Contains(pdf_bank, bank_name) \/ Contains(bank_name, pdf_bank)
  \/ /\ Clean(pdf_bank) # <<>> /\ Clean(bank_name) # <<>>
     /\ \/ Contains(Clean(pdf_bank), Clean(bank_name))
        \/ Contains(Clean(bank_name), Clean(pdf_bank))

\* pdf_delinquency_extractor.py:657-669  position of the matched entry, 0 if none
MatchIndex(bank_name, dm) ==
  IF \E k \in 1..Len(dm) : dm[k].key = bank_name
  THEN CHOOSE k \in 1..Len(dm) : dm[k].key = bank_name
  ELSE IF \E k \in 1..Len(dm) : LooseMatch(dm[k].key, bank_name)
  THEN CHOOSE k \in 1..Len(dm) :
         /\ LooseMatch(dm[k].key, bank_name)
         /\ \A j \in 1..(k - 1) : ~LooseMatch(dm[j].key, bank_name)
  ELSE 0

\* Python truth value of a cell: None, '' and 0.0 are false
Falsy(v) == v \in {"None", "", "f0.0"}

\* str(v).strip()
StrStrip(v) ==
  CASE v = "f0.0" -> "0.0"
    [] v = "f1.5" -> "1.5"
    [] v = "f2.5" -> "2.5"
    [] v = " - " -> "-"
    [] OTHER -> v

\* variant of Fillable: every cell may be filled
Fillable_Any(existing) == existing = existing

\* pdf_delinquency_extractor.py:678, 688  the cell may be filled
Fillable(existing) ==
  Falsy(existing) \/ StrStrip(existing) \in {"", "-", "0", "0.0"}

\* pdf_delinquency_extractor.py:679-682  float(value), or the value itself
ToCell(value) ==
  CASE value = "0" -> "f0.0"
    [] value = "1.5" -> "f1.5"
    [] value = "2.5" -> "f2.5"
    [] OTHER -> value

\* variant of PatchCell: a dash or zero mark is first cleared, and filled by
\* the next call
PatchCell_ClearThenFill(existing, value, hasCol) ==
  IF hasCol /\ value # "" /\ existing = "None" THEN ToCell(value)
  ELSE IF hasCol /\ value # "" /\ Fillable(existing) THEN "None"
  ELSE existing

\* pdf_delinquency_extractor.py:675-683, 685-693  one metric cell of a
\* matched row
PatchCell(existing, value, hasCol) ==
  IF hasCol /\ value # "" /\ Fillable(existing)
  THEN ToCell(value) ELSE existing

\* whether PatchCell assigns the cell (updated = True)
CellUpdated(existing, value, hasCol) ==
  hasCol /\ value # "" /\ Fillable(existing)

\* pdf_delinquency_extractor.py:651-696  one row of the sheet
PatchRow(row, dm, sh) ==
  IF row.name = <<>> \/ MatchIndex(row.name, dm) = 0 THEN row
  ELSE LET d == dm[MatchIndex(row.name, dm)]
       IN [name |-> row.name,
           prior |-> PatchCell(row.prior, d.prior, sh.hasPrior),
           current |-> PatchCell(row.current, d.current, sh.hasCurrent)]

RowUpdated(row, dm, sh) ==
  /\ row.name # <<>> /\ MatchIndex(row.name, dm) # 0
  /\ LET d == dm[MatchIndex(row.name, dm)]
     IN \/ CellUpdated(row.prior, d.prior, sh.hasPrior)
        \/ CellUpdated(row.current, d.current, sh.hasCurrent)

\* pdf_delinquency_extractor.py:606-648  the early returns
PatchRuns(sh, dm) == dm # <<>> /\ (sh.hasPrior \/ sh.hasCurrent)

\* pdf_delinquency_extractor.py:600-706  the sheet after the call
PatchSheet(sh, dm) ==
  IF ~PatchRuns(sh, dm) THEN sh
  ELSE [sh EXCEPT !.rows = [r \in 1..Len(sh.rows) |-> PatchRow(sh.rows[r], dm, sh)]]

\* pdf_delinquency_extractor.py:702  return patched > 0
PatchReturn(sh, dm) ==
  /\ PatchRuns(sh, dm)
  /\ \E r \in 1..Len(sh.rows) : RowUpdated(sh.rows[r], dm, sh)

\* ================================================================ Job A

\* app.py:1900-1904
A_Start ==
  /\ pcA = "start"
  /\ phaseA' = "scraping"
  /\ pcA' = "create_driver"
  /\ UNCHANGED <<scraping_running, chrome_phase_done, driver, idx, results,
                 retry_round, failed_indices, retry_idx, raised,
                 sharedResultsA, summary_excel_path, sbBank, attempt,
                 sbDriver, sbRet, audit, recycleHist, attempts, persisted,
                 sawOtherFailure>>

\* app.py:1983  driver = create_driver(...), outside the inner try/finally
A_CreateDriver ==
  /\ pcA = "create_driver"
  /\ CreationEnds("A")
  /\ \E ok \in BOOLEAN :
       IF ok
       THEN /\ driver' = "alive"
            /\ pcA' = "loop"
            /\ UNCHANGED sawOtherFailure
       ELSE /\ pcA' = "except"
            /\ sawOtherFailure' = NoteFailure(TRUE)
            /\ UNCHANGED driver
  /\ UNCHANGED <<phaseA, scraping_running, chrome_phase_done, idx, results,
                 retry_round, failed_indices, retry_idx, raised,
                 sharedResultsA, summary_excel_path, sbBank, attempt,
                 sbDriver, sbRet, audit, recycleHist, attempts, persisted>>

\* app.py:1985-1994  loop head of the first pass and the recycle decision
A_LoopHead ==
  /\ pcA = "loop"
  /\ IF idx < Len(selected_banks)
     THEN \E memHigh \in BOOLEAN :
            /\ recycleHist' = NoteMemory(memHigh)
            /\ IF ShouldRecycle(idx, memHigh)
               THEN /\ pcA' = "recycle"
                    /\ UNCHANGED <<sbBank, attempt, sbRet>>
               ELSE /\ pcA' = "sb_create"
                    /\ sbBank' = selected_banks[idx + 1]
                    /\ attempt' = 0
                    /\ sbRet' = "pending"
     ELSE /\ pcA' = "retry_round"
          /\ UNCHANGED <<sbBank, attempt, sbRet, recycleHist>>
  /\ retry_round' = IF idx < Len(selected_banks) THEN retry_round ELSE 1
  /\ UNCHANGED <<phaseA, scraping_running, chrome_phase_done, driver, idx,
                 results, failed_indices, retry_idx, raised, sharedResultsA,
                 summary_excel_path, sbDriver, audit, attempts, persisted,
                 sawOtherFailure>>

\* variant of A_RecycleChrome: when the replacement cannot be created the
\* worker goes on with the session it has torn down
A_RecycleChrome_KeepOld ==
  /\ pcA = "recycle"
  /\ CreationEnds("A")
  /\ \E ok \in BOOLEAN :
       /\ driver' = IF ok THEN "alive" ELSE CleanupDriver(driver)
       /\ sawOtherFailure' = NoteFailure(~ok)
       /\ recycleHist' = IF ok THEN NoteRecycle(idx) ELSE recycleHist
  /\ pcA' = "sb_create"
  /\ sbBank' = selected_banks[idx + 1]
  /\ attempt' = 0
  /\ sbRet' = "pending"
  /\ UNCHANGED <<phaseA, scraping_running, chrome_phase_done, idx, results,
                 retry_round, failed_indices, retry_idx, raised,
                 sharedResultsA, summary_excel_path, sbDriver, audit,
                 attempts, persisted>>

\* app.py:1968-1981, 1995  driver = _recycle_chrome(driver, idx, reason)
A_RecycleChrome ==
  /\ pcA = "recycle"
  /\ CreationEnds("A")
  /\ \E ok \in BOOLEAN :
       IF ok
       THEN /\ driver' = "alive"
            /\ pcA' = "sb_create"
            /\ sbBank' = selected_banks[idx + 1]
            /\ attempt' = 0
            /\ sbRet' = "pending"
            /\ recycleHist' = NoteRecycle(idx)
            /\ UNCHANGED <<raised, sawOtherFailure>>
       ELSE /\ driver' = CleanupDriver(driver)
            /\ raised' = TRUE
            /\ sawOtherFailure' = NoteFailure(TRUE)
            /\ pcA' = "finally_cleanup"
            /\ UNCHANGED <<sbBank, attempt, sbRet, recycleHist>>
  /\ UNCHANGED <<phaseA, scraping_running, chrome_phase_done, idx, results,
                 retry_round, failed_indices, retry_idx, sharedResultsA,
                 summary_excel_path, sbDriver, audit, attempts, persisted>>

\* scraper_core.py:738-748  one iteration of the attempt loop starts:
\* driver = create_driver(); a creation failure returns (None, False, ...)
SB_CreateDriver ==
  /\ pcA = "sb_create"
  /\ CreationEnds("A")
  /\ attempts' = CountAttempt(sbBank)
  /\ \E ok \in BOOLEAN :
       IF ok
       THEN /\ sbDriver' = "alive"
            /\ pcA' = "sb_pipeline"
            /\ UNCHANGED <<sbRet, sawOtherFailure>>
       ELSE /\ sbRet' = "failed"
            /\ sawOtherFailure' = NoteFailure(TRUE)
            /\ pcA' = "sb_return"
            /\ UNCHANGED sbDriver
  /\ UNCHANGED <<phaseA, scraping_running, chrome_phase_done, driver, idx,
                 results, retry_round, failed_indices, retry_idx, raised,
                 sharedResultsA, summary_excel_path, sbBank, attempt, audit, recycleHist,
                 persisted>>

PipelineOutcomes == {"select_fail", "url_fail", "no_data", "exception", "saved"}

\* variant of SB_Pipeline: an attempt that is retried leaves its session alive
SB_Pipeline_KeepSession ==
  /\ pcA = "sb_pipeline"
  /\ \E outcome \in PipelineOutcomes :
       /\ sawOtherFailure' =
            NoteFailure(outcome \in {"url_fail", "exception"})
       /\ sessionFailed' = NoteSession(outcome = "exception")
       /\ IF outcome = "saved"
          THEN /\ sbRet' = "ok"
               /\ sbDriver' = "none"
               /\ persisted' = NotePersisted(sbBank)
               /\ pcA' = "sb_return"
               /\ UNCHANGED attempt
          ELSE /\ UNCHANGED persisted
               /\ IF attempt < MAX_RETRIES
                  THEN /\ attempt' = attempt + 1
                       /\ pcA' = "sb_create"
                       /\ UNCHANGED <<sbRet, sbDriver>>
                  ELSE /\ sbRet' = "failed"
                       /\ sbDriver' = "none"
                       /\ pcA' = "sb_return"
                       /\ UNCHANGED attempt
  /\ UNCHANGED <<phaseA, scraping_running, chrome_phase_done, driver, idx,
                 results, retry_round, failed_indices, retry_idx, raised,
                 sharedResultsA, summary_excel_path, sbBank, audit, recycleHist, attempts>>

\* variant of SB_Pipeline: an exception of the pipeline leaves scrape_bank and
\* ends the scraping loop
SB_Pipeline_Propagate ==
  /\ pcA = "sb_pipeline"
  /\ sbDriver' = "none"
  /\ \E outcome \in PipelineOutcomes :
       /\ sawOtherFailure' =
            NoteFailure(outcome \in {"url_fail", "exception"})
       /\ sessionFailed' = NoteSession(outcome = "exception")
       /\ IF outcome = "saved"
          THEN /\ sbRet' = "ok"
               /\ persisted' = NotePersisted(sbBank)
               /\ pcA' = "sb_return"
               /\ UNCHANGED <<attempt, raised>>
          ELSE /\ UNCHANGED persisted
               /\ IF outcome = "exception"
                  THEN /\ raised' = TRUE
                       /\ pcA' = "finally_cleanup"
                       /\ UNCHANGED <<sbRet, attempt>>
                  ELSE /\ UNCHANGED raised
                       /\ IF attempt < MAX_RETRIES
                          THEN /\ attempt' = attempt + 1
                               /\ pcA' = "sb_create"
                               /\ UNCHANGED sbRet
                          ELSE /\ sbRet' = "failed"
                               /\ pcA' = "sb_return"
                               /\ UNCHANGED attempt
  /\ UNCHANGED <<phaseA, scraping_running, chrome_phase_done, driver, idx,
                 results, retry_round, failed_indices, retry_idx,
                 sharedResultsA, summary_excel_path, sbBank, audit, recycleHist, attempts>>

\* scraper_core.py:750-893  the pipeline of one attempt, its except branch and
\* its finally (driver.quit(), working directory removed)
SB_Pipeline ==
  /\ pcA = "sb_pipeline"
  /\ sbDriver' = "none"
  /\ \E outcome \in PipelineOutcomes :
       /\ sawOtherFailure' =
            NoteFailure(outcome \in {"url_fail", "exception"})
       /\ sessionFailed' = NoteSession(outcome = "exception")
       /\ IF outcome = "saved"
          THEN /\ sbRet' = "ok"
               /\ persisted' = NotePersisted(sbBank)
               /\ pcA' = "sb_return"
               /\ UNCHANGED attempt
          ELSE /\ UNCHANGED persisted
               /\ IF attempt < MAX_RETRIES
                  THEN /\ attempt' = attempt + 1
                       /\ pcA' = "sb_create"
                       /\ UNCHANGED sbRet
                  ELSE /\ sbRet' = "failed"
                       /\ pcA' = "sb_return"
                       /\ UNCHANGED attempt
  /\ UNCHANGED <<phaseA, scraping_running, chrome_phase_done, driver, idx,
                 results, retry_round, failed_indices, retry_idx, raised,
                 sharedResultsA, summary_excel_path, sbBank, audit, recycleHist, attempts>>

\* variant of A_Record: a failed target aborts the whole job
A_Record_RaiseOnFailure ==
  /\ pcA = "sb_return"
  /\ phaseA = "scraping"
  /\ results' = Append(results, Result(sbBank, sbRet = "ok"))
  /\ idx' = idx + 1
  /\ pcA' = IF sbRet = "ok" THEN "loop" ELSE "finally_cleanup"
  /\ raised' = (sbRet # "ok")
  /\ sbBank' = "-" /\ attempt' = 0 /\ sbRet' = "pending"
  /\ UNCHANGED <<phaseA, scraping_running, chrome_phase_done, driver,
                 retry_round, failed_indices, retry_idx,
                 sharedResultsA, summary_excel_path, sbDriver, audit, recycleHist,
                 attempts, persisted, sawOtherFailure>>

\* app.py:2007-2025  the first pass appends the target's result
A_Record ==
  /\ pcA = "sb_return"
  /\ phaseA = "scraping"
  /\ results' = Append(results, Result(sbBank, sbRet = "ok"))
  /\ idx' = idx + 1
  /\ pcA' = "loop"
  /\ sbBank' = "-" /\ attempt' = 0 /\ sbRet' = "pending"
  /\ UNCHANGED <<phaseA, scraping_running, chrome_phase_done, driver,
                 retry_round, failed_indices, retry_idx, raised,
                 sharedResultsA, summary_excel_path, sbDriver, audit, recycleHist,
                 attempts, persisted, sawOtherFailure>>

\* variant of A_RetryHead: one retry round more than MAX_RETRY_ROUNDS
A_RetryHead_ExtraRound ==
  /\ pcA = "retry_round"
  /\ IF retry_round <= MAX_RETRY_ROUNDS + 1 /\ FailedIndices(results) # <<>>
     THEN /\ failed_indices' = FailedIndices(results)
          /\ phaseA' = "retrying"
          /\ retry_idx' = 1
          /\ pcA' = "retry_loop"
     ELSE /\ pcA' = "finally_cleanup"
          /\ UNCHANGED <<failed_indices, phaseA, retry_idx>>
  /\ UNCHANGED <<scraping_running, chrome_phase_done, driver, idx, results,
                 retry_round, raised, sharedResultsA, summary_excel_path,
                 sbBank, attempt, sbDriver, sbRet, audit, recycleHist, attempts,
                 persisted, sawOtherFailure>>

\* variant of A_RetryHead: a round is started although no target is failing
A_RetryHead_NoEarlyStop ==
  /\ pcA = "retry_round"
  /\ IF retry_round <= MAX_RETRY_ROUNDS
     THEN /\ failed_indices' = FailedIndices(results)
          /\ phaseA' = "retrying"
          /\ retry_idx' = 1
          /\ pcA' = "retry_loop"
     ELSE /\ pcA' = "finally_cleanup"
          /\ UNCHANGED <<failed_indices, phaseA, retry_idx>>
  /\ UNCHANGED <<scraping_running, chrome_phase_done, driver, idx, results,
                 retry_round, raised, sharedResultsA, summary_excel_path,
                 sbBank, attempt, sbDriver, sbRet, audit, recycleHist, attempts,
                 persisted, sawOtherFailure>>

\* app.py:2037-2057  head of a retry round
A_RetryHead ==
  /\ pcA = "retry_round"
  /\ IF retry_round <= MAX_RETRY_ROUNDS /\ FailedIndices(results) # <<>>
     THEN /\ failed_indices' = FailedIndices(results)
          /\ phaseA' = "retrying"
          /\ retry_idx' = 1
          /\ pcA' = "retry_loop"
     ELSE /\ pcA' = "finally_cleanup"
          /\ UNCHANGED <<failed_indices, phaseA, retry_idx>>
  /\ UNCHANGED <<scraping_running, chrome_phase_done, driver, idx, results,
                 retry_round, raised, sharedResultsA, summary_excel_path,
                 sbBank, attempt, sbDriver, sbRet, audit, recycleHist, attempts,
                 persisted, sawOtherFailure>>

\* app.py:2059-2069  next failed target of the round, or the round is over
A_RetryLoop ==
  /\ pcA = "retry_loop"
  /\ IF retry_idx <= Len(failed_indices)
     THEN /\ sbBank' = results[failed_indices[retry_idx]].bank
          /\ attempt' = 0
          /\ sbRet' = "pending"
          /\ pcA' = "sb_create"
          /\ UNCHANGED retry_round
     ELSE /\ retry_round' = retry_round + 1
          /\ pcA' = "retry_round"
          /\ UNCHANGED <<sbBank, attempt, sbRet>>
  /\ UNCHANGED <<phaseA, scraping_running, chrome_phase_done, driver, idx,
                 results, failed_indices, retry_idx, raised, sharedResultsA,
                 summary_excel_path, sbDriver, audit, recycleHist, attempts, persisted,
                 sawOtherFailure>>

\* variant of A_RetryRecord: a successful retry appends its result
A_RetryRecord_Append ==
  /\ pcA = "sb_return"
  /\ phaseA = "retrying"
  /\ results' = IF sbRet = "ok"
                THEN Append(results, Result(sbBank, TRUE))
                ELSE results
  /\ retry_idx' = retry_idx + 1
  /\ pcA' = "retry_loop"
  /\ sbBank' = "-" /\ attempt' = 0 /\ sbRet' = "pending"
  /\ UNCHANGED <<phaseA, scraping_running, chrome_phase_done, driver, idx,
                 retry_round, failed_indices, raised, sharedResultsA,
                 summary_excel_path, sbDriver, audit, recycleHist, attempts, persisted,
                 sawOtherFailure>>

\* variant of A_RetryRecord: a successful retry marks the entry a success and
\* keeps the path of the failed entry
A_RetryRecord_KeepPath ==
  /\ pcA = "sb_return"
  /\ phaseA = "retrying"
  /\ results' = IF sbRet = "ok"
                THEN [results EXCEPT ![failed_indices[retry_idx]].success =
                                        TRUE]
                ELSE results
  /\ retry_idx' = retry_idx + 1
  /\ pcA' = "retry_loop"
  /\ sbBank' = "-" /\ attempt' = 0 /\ sbRet' = "pending"
  /\ UNCHANGED <<phaseA, scraping_running, chrome_phase_done, driver, idx,
                 retry_round, failed_indices, raised, sharedResultsA,
                 summary_excel_path, sbDriver, audit, recycleHist, attempts, persisted,
                 sawOtherFailure>>

\* app.py:2075-2093  a retry replaces the entry in place on success
A_RetryRecord ==
  /\ pcA = "sb_return"
  /\ phaseA = "retrying"
  /\ results' = IF sbRet = "ok"
                THEN [results EXCEPT ![failed_indices[retry_idx]] =
                                        Result(sbBank, TRUE)]
                ELSE results
  /\ retry_idx' = retry_idx + 1
  /\ pcA' = "retry_loop"
  /\ sbBank' = "-" /\ attempt' = 0 /\ sbRet' = "pending"
  /\ UNCHANGED <<phaseA, scraping_running, chrome_phase_done, driver, idx,
                 retry_round, failed_indices, raised, sharedResultsA,
                 summary_excel_path, sbDriver, audit, recycleHist, attempts, persisted,
                 sawOtherFailure>>

\* app.py:2095-2098  inner finally: _cleanup_driver(driver)
A_FinallyCleanup ==
  /\ pcA = "finally_cleanup"
  /\ driver' = CleanupDriver(driver)
  /\ pcA' = "finally_signal"
  /\ UNCHANGED <<phaseA, scraping_running, chrome_phase_done, idx, results,
                 retry_round, failed_indices, retry_idx, raised,
                 sharedResultsA, summary_excel_path, sbBank, attempt,
                 sbDriver, sbRet, audit, recycleHist, attempts, persisted,
                 sawOtherFailure>>

\* app.py:2099  shared['chrome_phase_done'] = True, then the exception (if
\* any) goes on to the outer except
A_FinallySignal ==
  /\ pcA = "finally_signal"
  /\ chrome_phase_done' = TRUE
  /\ pcA' = IF raised THEN "except" ELSE "post"
  /\ UNCHANGED <<phaseA, scraping_running, driver, idx, results,
                 retry_round, failed_indices, retry_idx, raised,
                 sharedResultsA, summary_excel_path, sbBank, attempt,
                 sbDriver, sbRet, audit, recycleHist, attempts, persisted,
                 sawOtherFailure>>

\* app.py:2101-2116  shared['results'] = results
A_Post ==
  /\ pcA = "post"
  /\ sharedResultsA' = results
  /\ pcA' = "zip"
  /\ UNCHANGED <<phaseA, scraping_running, chrome_phase_done, driver, idx,
                 results, retry_round, failed_indices, retry_idx, raised,
                 summary_excel_path, sbBank, attempt, sbDriver, sbRet,
                 audit, recycleHist, attempts, persisted, sawOtherFailure>>

\* app.py:2118-2126  ZIP step; create_zip_archive may raise
A_Zip ==
  /\ pcA = "zip"
  /\ \E auto_zip \in BOOLEAN, ok \in BOOLEAN :
       IF auto_zip
       THEN /\ phaseA' = "zipping"
            /\ pcA' = IF ok THEN "ai_excel" ELSE "except"
            /\ sawOtherFailure' = NoteFailure(~ok)
       ELSE /\ pcA' = "ai_excel"
            /\ UNCHANGED <<phaseA, sawOtherFailure>>
  /\ UNCHANGED <<scraping_running, chrome_phase_done, driver, idx, results,
                 retry_round, failed_indices, retry_idx, raised,
                 sharedResultsA, summary_excel_path, sbBank, attempt,
                 sbDriver, sbRet, audit, recycleHist, attempts, persisted>>

\* values the AI extraction puts into the two rate columns of a row
SummaryCells == {"None", "f1.5"}

\* excel_generator.py:255-300  one row per scraped result
SummaryRows(rs, cell) ==
  [k \in 1..Len(rs) |->
     [name |-> <<rs[k].bank>>, prior |-> cell, current |-> cell]]

\* app.py:2128-2158, excel_generator.py:296-314  generate_summary_excel
\* builds df, saves it and hands the path over through _on_excel_ready; an
\* exception is caught by the worker
A_AiExcel ==
  /\ pcA = "ai_excel"
  /\ \E use_gemini \in BOOLEAN, ok \in BOOLEAN, cell \in SummaryCells :
       IF use_gemini
       THEN /\ phaseA' = "ai_excel"
            /\ IF ok
               THEN /\ df' = SummaryRows(results, cell)
                    /\ sheet' = [hasPrior |-> TRUE, hasCurrent |-> TRUE,
                                 rows |-> SummaryRows(results, cell)]
                    /\ summary_excel_path' = TRUE
                    /\ pcA' = "ai_validate"
               ELSE /\ pcA' = "set_done"
                    /\ UNCHANGED <<df, sheet, summary_excel_path>>
       ELSE /\ pcA' = "set_done"
            /\ UNCHANGED <<phaseA, df, sheet, summary_excel_path>>
  /\ UNCHANGED <<scraping_running, chrome_phase_done, driver, idx, results,
                 retry_round, failed_indices, retry_idx, raised,
                 sharedResultsA, sbBank, attempt, sbDriver, sbRet, audit, recycleHist,
                 attempts, persisted, sawOtherFailure,
                 delinquency_data_map, appliedMaps, patchRet>>

\* excel_generator.py:316-326, app.py:2159-2180  validation, then df is
\* saved again to the same path; an exception is caught by the worker
A_AiValidate ==
  /\ pcA = "ai_validate"
  /\ \E ok \in BOOLEAN :
       sheet' = IF ok THEN [sheet EXCEPT !.rows = df] ELSE sheet
  /\ pcA' = "set_done"
  /\ UNCHANGED <<phaseA, scraping_running, chrome_phase_done, driver, idx,
                 results, retry_round, failed_indices, retry_idx, raised,
                 sharedResultsA, summary_excel_path, df, sbBank, attempt,
                 sbDriver, sbRet, audit, recycleHist, attempts, persisted,
                 sawOtherFailure, delinquency_data_map, appliedMaps,
                 patchRet>>

\* app.py:2182-2190  progress['phase'] = 'done'
A_Done ==
  /\ pcA = "set_done"
  /\ phaseA' = "done"
  /\ pcA' = "finally"
  /\ UNCHANGED <<scraping_running, chrome_phase_done, driver, idx, results,
                 retry_round, failed_indices, retry_idx, raised,
                 sharedResultsA, summary_excel_path, sbBank, attempt,
                 sbDriver, sbRet, audit, recycleHist, attempts, persisted,
                 sawOtherFailure>>

\* app.py:2192-2197  outer except: progress['phase'] = 'error'
A_Except ==
  /\ pcA = "except"
  /\ phaseA' = "error"
  /\ pcA' = "finally"
  /\ UNCHANGED <<scraping_running, chrome_phase_done, driver, idx, results,
                 retry_round, failed_indices, retry_idx, raised,
                 sharedResultsA, summary_excel_path, sbBank, attempt,
                 sbDriver, sbRet, audit, recycleHist, attempts, persisted,
                 sawOtherFailure>>

\* app.py:2199-2200  outer finally: shared['scraping_running'] = False
A_Finally ==
  /\ pcA = "finally"
  /\ scraping_running' = FALSE
  /\ pcA' = "end"
  /\ UNCHANGED <<phaseA, chrome_phase_done, driver, idx, results,
                 retry_round, failed_indices, retry_idx, raised,
                 sharedResultsA, summary_excel_path, sbBank, attempt,
                 sbDriver, sbRet, audit, recycleHist, attempts, persisted,
                 sawOtherFailure>>

\* the steps of the worker; only the workbook steps touch the workbook
JobA ==
  \/ /\ \/ A_CreateDriver \/ A_RecycleChrome \/ SB_CreateDriver
     /\ UNCHANGED <<df, varsM, sessionFailed>>
  \/ SB_Pipeline /\ UNCHANGED <<df, varsM, chrome_init>>
  \/ /\ \/ A_Start \/ A_LoopHead \/ A_Record
        \/ A_RetryHead \/ A_RetryLoop \/ A_RetryRecord
        \/ A_FinallyCleanup \/ A_FinallySignal
        \/ A_Post \/ A_Zip \/ A_Done \/ A_Except \/ A_Finally
     /\ UNCHANGED <<df, varsM, chrome_init, sessionFailed>>
  \/ A_AiExcel /\ UNCHANGED <<chrome_init, sessionFailed>>
  \/ A_AiValidate /\ UNCHANGED <<chrome_init, sessionFailed>>

\* ================================================================ Job B

\* rows of the portal's table that extract_bank_list can return: the
\* selected banks and one bank that was not selected, each at most once
PagePool == Append(selected_banks, BANKS[Len(BANKS)])

RECURSIVE SubSeqs(_)
SubSeqs(sq) ==
  IF sq = <<>> THEN {<<>>}
  ELSE LET rest == SubSeqs(Tail(sq))
       IN rest \cup {<<Head(sq)>> \o r : r \in rest}

\* app.py:2380  [b for b in bank_list if b.get('name') in selected_set]
RECURSIVE FilterSelected(_)
FilterSelected(bl) ==
  IF bl = <<>> THEN <<>>
  ELSE IF Head(bl) \in SelectedSet
       THEN <<Head(bl)>> \o FilterSelected(Tail(bl))
       ELSE FilterSelected(Tail(bl))

\* downloader_core.py:489-495  the result's status from the number of files
StatusOf(downloaded) ==
  IF downloaded = 2 THEN "complete"
  ELSE IF downloaded >= 1 THEN "partial"
  ELSE "failed"

\* files a download_bank call can fetch: both documents or none
DownloadedCounts == {0, 2}

\* variant of B_Start: the worker does not wait for Job A's signal
B_Start_NoWait ==
  /\ pcB = "b_start"
  /\ phaseB' = "init"
  /\ pcB' = "b_downloader"
  /\ waited' = 0
  /\ UNCHANGED <<running, logsB, dlDriver, bank_list, dl_i, dlResults,
                 sharedResultsB, delinquency_data, merge_done>>

\* app.py:2313-2341  init, and the decision to wait for Job A's signal
B_Start ==
  /\ pcB = "b_start"
  /\ IF ~chrome_phase_done
     THEN /\ phaseB' = "waiting_for_scraping"
          /\ pcB' = "b_wait"
     ELSE /\ phaseB' = "init"
          /\ pcB' = "b_downloader"
  /\ waited' = 0
  /\ UNCHANGED <<running, logsB, dlDriver, bank_list, dl_i, dlResults,
                 sharedResultsB, delinquency_data, merge_done>>

\* variant of B_WaitPoll: the poll sleeps without counting the time
B_WaitPoll_NoCount ==
  /\ pcB = "b_wait"
  /\ ~chrome_phase_done /\ waited < HANDOFF_TIMEOUT
  /\ UNCHANGED <<pcB, phaseB, running, waited, logsB, dlDriver, bank_list,
                 dl_i, dlResults, sharedResultsB, delinquency_data,
                 merge_done>>

\* app.py:2342-2353  one iteration of the hand-off poll
B_WaitPoll ==
  /\ pcB = "b_wait"
  /\ ~chrome_phase_done /\ waited < HANDOFF_TIMEOUT
  /\ waited' = waited + HANDOFF_SLEEP
  /\ UNCHANGED <<pcB, phaseB, running, logsB, dlDriver, bank_list, dl_i,
                 dlResults, sharedResultsB, delinquency_data, merge_done>>

\* variant of B_WaitExit: the time-out is not logged
B_WaitExit_Silent ==
  /\ pcB = "b_wait"
  /\ ~(~chrome_phase_done /\ waited < HANDOFF_TIMEOUT)
  /\ waited' = 0
  /\ pcB' = "b_downloader"
  /\ UNCHANGED <<phaseB, running, logsB, dlDriver, bank_list, dl_i, dlResults,
                 sharedResultsB, delinquency_data, merge_done>>

\* app.py:2342, 2354-2357  the poll ends and its outcome is logged
B_WaitExit ==
  /\ pcB = "b_wait"
  /\ ~(~chrome_phase_done /\ waited < HANDOFF_TIMEOUT)
  /\ logsB' = IF waited >= HANDOFF_TIMEOUT THEN logsB \cup {"wait_timeout"}
              ELSE logsB
  /\ waited' = 0
  /\ pcB' = "b_downloader"
  /\ UNCHANGED <<phaseB, running, dlDriver, bank_list, dl_i, dlResults,
                 sharedResultsB, delinquency_data, merge_done>>

\* app.py:2359-2367  downloader = DisclosureDownloader(...); phase 'extracting'
B_Extracting ==
  /\ pcB = "b_downloader"
  /\ phaseB' = "extracting"
  /\ pcB' = "b_create"
  /\ UNCHANGED <<running, waited, logsB, dlDriver, bank_list, dl_i,
                 dlResults, sharedResultsB, delinquency_data, merge_done>>

\* downloader_core.py:541, 133-239  self.driver = self.create_driver()
DL_CreateDriver ==
  /\ pcB = "b_create"
  /\ CreationEnds("B")
  /\ \E ok \in BOOLEAN :
       IF ok
       THEN /\ dlDriver' = "alive"
            /\ pcB' = "b_extract"
       ELSE /\ pcB' = "b_except"
            /\ UNCHANGED dlDriver
  /\ UNCHANGED <<phaseB, running, waited, logsB, bank_list, dl_i, dlResults,
                 sharedResultsB, delinquency_data, merge_done>>

\* downloader_core.py:543-567  up to MAX_RETRY_ATTEMPTS loads of the page;
\* returns the extracted list or [], an exception other than a timeout
\* propagates
DL_ExtractBanks ==
  /\ pcB = "b_extract"
  /\ \/ \E bl \in SubSeqs(PagePool) :
          /\ bank_list' = bl
          /\ pcB' = "b_filter"
     \/ /\ pcB' = "b_except"
        /\ UNCHANGED bank_list
  /\ UNCHANGED <<phaseB, running, waited, logsB, dlDriver, dl_i, dlResults,
                 sharedResultsB, delinquency_data, merge_done>>

\* app.py:2370-2390  empty list, filter on the selected banks
B_Filter ==
  /\ pcB = "b_filter"
  /\ IF bank_list = <<>>
     THEN /\ phaseB' = "error"
          /\ running' = FALSE
          /\ pcB' = "b_finally"
          /\ UNCHANGED bank_list
     ELSE IF FilterSelected(bank_list) = <<>>
     THEN /\ phaseB' = "done"
          /\ pcB' = "b_finally"
          /\ bank_list' = <<>>
          /\ UNCHANGED running
     ELSE /\ bank_list' = FilterSelected(bank_list)
          /\ phaseB' = "downloading"
          /\ pcB' = "b_dl_loop"
          /\ UNCHANGED running
  /\ dl_i' = 0
  /\ UNCHANGED <<waited, logsB, dlDriver, dlResults, sharedResultsB,
                 delinquency_data, merge_done>>

\* variant of DL_LoopHead: the loop does not look at is_running
DL_LoopHead_NoStopCheck ==
  /\ pcB = "b_dl_loop"
  /\ IF dl_i < Len(bank_list)
     THEN /\ sharedResultsB' = dlResults
          /\ \E alive \in BOOLEAN, ok \in BOOLEAN :
               IF alive
               THEN /\ pcB' = "b_dl_bank"
                    /\ chrome_init.track => "B" \notin chrome_init.busy
                    /\ UNCHANGED <<dlDriver, chrome_init>>
               ELSE /\ CreationEnds("B")
                    /\ IF ok
                       THEN /\ pcB' = "b_dl_bank"
                            /\ dlDriver' = "alive"
                       ELSE /\ pcB' = "b_except"
                            /\ dlDriver' = "quit"
     ELSE /\ pcB' = "b_report"
          /\ UNCHANGED <<sharedResultsB, dlDriver, chrome_init>>
  /\ UNCHANGED <<phaseB, running, waited, logsB, bank_list, dl_i, dlResults,
                 delinquency_data, merge_done>>

\* downloader_core.py:584-633, app.py:2393-2396  loop head of download_all:
\* progress callback, liveness probe and _recover_driver (253-267)
DL_LoopHead ==
  /\ pcB = "b_dl_loop"
  /\ IF dl_i < Len(bank_list) /\ is_running
     THEN /\ sharedResultsB' = dlResults
          /\ \E alive \in BOOLEAN, ok \in BOOLEAN :
               IF alive
               THEN /\ pcB' = "b_dl_bank"
                    /\ chrome_init.track => "B" \notin chrome_init.busy
                    /\ UNCHANGED <<dlDriver, chrome_init>>
               ELSE /\ CreationEnds("B")
                    /\ IF ok
                       THEN /\ pcB' = "b_dl_bank"
                            /\ dlDriver' = "alive"
                       ELSE /\ pcB' = "b_except"
                            /\ dlDriver' = "quit"
     ELSE /\ pcB' = "b_report"
          /\ UNCHANGED <<sharedResultsB, dlDriver, chrome_init>>
  /\ UNCHANGED <<phaseB, running, waited, logsB, bank_list, dl_i, dlResults,
                 delinquency_data, merge_done>>

\* downloader_core.py:375-506, 636-650  download_bank appends one result
DL_DownloadBank ==
  /\ pcB = "b_dl_bank"
  /\ \E downloaded \in DownloadedCounts :
       dlResults' = Append(dlResults,
                           [name |-> bank_list[dl_i + 1],
                            status |-> StatusOf(downloaded)])
  /\ dl_i' = dl_i + 1
  /\ progress' = SaveProgress(progress, dl_i + 1, bank_list[dl_i + 1])
  /\ downloadLog' = Append(downloadLog, bank_list[dl_i + 1])
  /\ pcB' = "b_dl_loop"
  /\ UNCHANGED <<phaseB, running, waited, logsB, dlDriver, bank_list,
                 sharedResultsB, delinquency_data, merge_done>>

\* app.py:2400-2438  report, ZIP (either may raise), shared['results']
B_ReportZip ==
  /\ pcB = "b_report"
  /\ \E ok \in BOOLEAN :
       IF ok
       THEN /\ phaseB' = "zipping"
            /\ sharedResultsB' = dlResults
            /\ pcB' = "b_pdf"
       ELSE /\ pcB' = "b_except"
            /\ UNCHANGED <<phaseB, sharedResultsB>>
  /\ UNCHANGED <<running, waited, logsB, dlDriver, bank_list, dl_i,
                 dlResults, delinquency_data, merge_done>>

\* pdf_delinquency_extractor.py:551-597  one entry per bank whose documents
\* were downloaded, keyed by the bank name of the file
RECURSIVE ExtractedMap(_)
ExtractedMap(rs) ==
  IF rs = <<>> THEN <<>>
  ELSE IF Head(rs).status = "complete"
       THEN <<[key |-> <<Head(rs).name, "S">>, prior |-> "2.5",
               current |-> "2.5"]>> \o ExtractedMap(Tail(rs))
       ELSE ExtractedMap(Tail(rs))

\* app.py:2440-2470  PDF extraction; its exceptions are caught
B_ExtractPdf ==
  /\ pcB = "b_pdf"
  /\ \E available \in BOOLEAN, data \in BOOLEAN :
       IF available
       THEN /\ phaseB' = "extracting_pdf"
            /\ delinquency_data' = (data /\ ExtractedMap(dlResults) # <<>>)
            /\ delinquency_data_map' =
                 IF data THEN ExtractedMap(dlResults) ELSE <<>>
       ELSE UNCHANGED <<phaseB, delinquency_data, delinquency_data_map>>
  /\ pcB' = "b_merge"
  /\ UNCHANGED <<running, waited, logsB, dlDriver, bank_list, dl_i,
                 dlResults, sharedResultsB, merge_done, sheet, appliedMaps,
                 patchRet>>

\* app.py:2473-2480  merge stage entered only with extracted data
B_MergeStart ==
  /\ pcB = "b_merge"
  /\ IF delinquency_data
     THEN /\ phaseB' = "merging"
          /\ pcB' = IF scraping_running THEN "b_merge_wait" ELSE "b_merge_do"
     ELSE /\ pcB' = "b_cleanup"
          /\ UNCHANGED phaseB
  /\ waited' = 0
  /\ UNCHANGED <<running, logsB, dlDriver, bank_list, dl_i, dlResults,
                 sharedResultsB, delinquency_data, merge_done>>

\* app.py:2481-2485  one iteration of the poll for Job A's end
B_MergePoll ==
  /\ pcB = "b_merge_wait"
  /\ scraping_running /\ waited < MERGE_WAIT_TIMEOUT
  /\ waited' = waited + MERGE_WAIT_SLEEP
  /\ UNCHANGED <<pcB, phaseB, running, logsB, dlDriver, bank_list, dl_i,
                 dlResults, sharedResultsB, delinquency_data, merge_done>>

\* variant of B_Merge: the patch is called whether or not the workbook exists
B_Merge_NoArtifactCheck ==
  /\ \/ pcB = "b_merge_do"
     \/ /\ pcB = "b_merge_wait"
        /\ ~(scraping_running /\ waited < MERGE_WAIT_TIMEOUT)
  /\ \E ok \in BOOLEAN :
       IF ok
       THEN /\ sheet' = PatchSheet(sheet, delinquency_data_map)
            /\ patchRet' = PatchReturn(sheet, delinquency_data_map)
            /\ appliedMaps' = Append(appliedMaps, delinquency_data_map)
            /\ merge_done' = TRUE
       ELSE UNCHANGED <<sheet, patchRet, appliedMaps, merge_done>>
  /\ logsB' = logsB
  /\ waited' = 0
  /\ pcB' = "b_cleanup"
  /\ UNCHANGED <<phaseB, running, dlDriver, bank_list, dl_i,
                 dlResults, sharedResultsB, delinquency_data,
                 delinquency_data_map>>

\* app.py:2481, 2487-2502  the poll is over; if the workbook exists it is
\* patched and merge_done is set, an exception of the patch is caught
B_Merge ==
  /\ \/ pcB = "b_merge_do"
     \/ /\ pcB = "b_merge_wait"
        /\ ~(scraping_running /\ waited < MERGE_WAIT_TIMEOUT)
  /\ \E ok \in BOOLEAN :
       IF summary_excel_path /\ ok
       THEN /\ sheet' = PatchSheet(sheet, delinquency_data_map)
            /\ patchRet' = PatchReturn(sheet, delinquency_data_map)
            /\ appliedMaps' = Append(appliedMaps, delinquency_data_map)
            /\ merge_done' = TRUE
       ELSE UNCHANGED <<sheet, patchRet, appliedMaps, merge_done>>
  /\ logsB' = IF summary_excel_path THEN logsB
              ELSE logsB \cup {"merge_skipped"}
  /\ waited' = 0
  /\ pcB' = "b_cleanup"
  /\ UNCHANGED <<phaseB, running, dlDriver, bank_list, dl_i,
                 dlResults, sharedResultsB, delinquency_data,
                 delinquency_data_map>>

\* app.py:2504-2513, downloader_core.py:751-760  cleanup, phase 'done'
B_Cleanup ==
  /\ pcB = "b_cleanup"
  /\ dlDriver' = "none"
  /\ phaseB' = "done"
  /\ pcB' = "b_finally"
  /\ UNCHANGED <<running, waited, logsB, bank_list, dl_i, dlResults,
                 sharedResultsB, delinquency_data, merge_done>>

\* variant of B_Except: the handler leaves the phase as it is
B_Except_KeepPhase ==
  /\ pcB = "b_except"
  /\ pcB' = "b_finally"
  /\ UNCHANGED <<phaseB, running, waited, logsB, dlDriver, bank_list, dl_i,
                 dlResults, sharedResultsB, delinquency_data, merge_done>>

\* app.py:2515-2521  except: phase 'error'
B_Except ==
  /\ pcB = "b_except"
  /\ phaseB' = "error"
  /\ pcB' = "b_finally"
  /\ UNCHANGED <<running, waited, logsB, dlDriver, bank_list, dl_i,
                 dlResults, sharedResultsB, delinquency_data, merge_done>>

\* app.py:2523-2524  finally: shared['running'] = False
B_Finally ==
  /\ pcB = "b_finally"
  /\ running' = FALSE
  /\ pcB' = "b_end"
  /\ UNCHANGED <<phaseB, waited, logsB, dlDriver, bank_list, dl_i,
                 dlResults, sharedResultsB, delinquency_data, merge_done>>

\* the steps of the worker; only extraction and merge touch the merge data
JobB ==
  \/ /\ \/ DL_CreateDriver \/ DL_LoopHead
     /\ UNCHANGED <<varsM, is_running, ckpt, varsR>>
  \/ DL_DownloadBank /\ UNCHANGED <<varsM, is_running, chrome_init, varsR>>
  \/ /\ \/ B_Start \/ B_WaitPoll \/ B_WaitExit \/ B_Extracting
        \/ DL_ExtractBanks \/ B_Filter
        \/ B_ReportZip \/ B_MergeStart \/ B_MergePoll
        \/ B_Cleanup \/ B_Except \/ B_Finally
     /\ UNCHANGED <<varsM, is_running, chrome_init, ckpt, varsR>>
  \/ B_ExtractPdf /\ UNCHANGED <<is_running, chrome_init, ckpt, varsR>>
  \/ B_Merge /\ UNCHANGED <<is_running, chrome_init, ckpt, varsR>>

\* variant of Next: when its wait times out Job B sets Job A's hand-off
\* flag itself
Next_ForeignWrite ==
  \/ JobA /\ UNCHANGED <<selected_banks, varsB>>
  \/ JobB /\ UNCHANGED varsA
  \/ /\ pcB = "b_wait" /\ ~chrome_phase_done /\ waited >= HANDOFF_TIMEOUT
     /\ chrome_phase_done' = TRUE
     /\ pcB' = "b_downloader"
     /\ UNCHANGED <<selected_banks, pcA, phaseA, scraping_running, driver,
                    idx, results, retry_round, failed_indices, retry_idx,
                    raised, sharedResultsA, summary_excel_path, df, sbBank,
                    attempt, sbDriver, sbRet, audit, attempts, persisted,
                    sawOtherFailure, sessionFailed, recycleHist>>
     /\ UNCHANGED <<phaseB, running, waited, logsB, dlDriver, bank_list,
                    dl_i, dlResults, sharedResultsB, delinquency_data,
                    merge_done, is_running, ckpt, varsR>>
     /\ UNCHANGED <<varsM, chrome_init>>

\* app.py:2299-2302  both threads run concurrently
Next ==
  \/ JobA /\ UNCHANGED <<selected_banks, varsB>>
  \/ JobB /\ UNCHANGED varsA

Spec == Init /\ [][Next]_vars

\* Job A alone (Job B not started), with the history of Job A recorded
NextScrape == JobA /\ UNCHANGED <<selected_banks, varsB>>

SpecScrape == InitScrape /\ [][NextScrape]_vars

\* Job A alone over three banks, in the runs without a failure other than a
\* target yielding no table: no creation, URL, ZIP or other exception
MaxScenarioBanks == 3

InitScenario ==
  /\ selected_banks = SubSeq(BANKS, 1, MaxScenarioBanks)
  /\ InitA /\ InitB /\ InitNoMerge /\ audit = TRUE
  /\ chrome_init = ChromeInit(FALSE)

NextScenario == NextScrape /\ ~sawOtherFailure'

SpecScenario == InitScenario /\ [][NextScenario]_vars

\* Job A alone over enough banks for the periodic recycle, in the runs in
\* which every attempt of scrape_bank saves its workbook
InitRecycle ==
  /\ selected_banks = SubSeq(BANKS, 1, MaxRecycleBanks)
  /\ InitA /\ InitB /\ InitNoMerge /\ audit = TRUE
  /\ chrome_init = ChromeInit(FALSE)

NextRecycle == NextScrape /\ attempt' = 0 /\ sbRet' # "failed"

SpecRecycle == InitRecycle /\ [][NextRecycle]_vars


\* scraper_core.py:175-177  create_driver of Job A starts: it acquires
\* _chrome_init_lock (called at app.py:1983, in _recycle_chrome and by
\* scrape_bank)
A_CreateBegin ==
  /\ chrome_init.track /\ "A" \notin chrome_init.busy
  /\ pcA \in {"create_driver", "recycle", "sb_create"}
  /\ chrome_init.lock = "free"
  /\ chrome_init' = [chrome_init EXCEPT !.busy = @ \cup {"A"}, !.lock = "A"]
  /\ UNCHANGED <<varsA, varsB, varsM>>

\* downloader_core.py:133-239  DisclosureDownloader.create_driver starts
\* (called by start at 541 and by _recover_driver at 253-267); it takes no
\* lock
B_CreateBegin ==
  /\ chrome_init.track /\ "B" \notin chrome_init.busy
  /\ \/ pcB = "b_create"
     \/ pcB = "b_dl_loop" /\ dl_i < Len(bank_list) /\ is_running
  /\ chrome_init' = [chrome_init EXCEPT !.busy = @ \cup {"B"}]
  /\ UNCHANGED <<varsA, varsB, varsM>>

\* downloader_core.py:746-749  stop(), called by another thread while
\* download_all runs
DL_Stop ==
  /\ pcB \in {"b_dl_loop", "b_dl_bank"}
  /\ is_running
  /\ is_running' = FALSE
  /\ UNCHANGED <<pcB, phaseB, running, waited, logsB, dlDriver, bank_list,
                 dl_i, dlResults, sharedResultsB, delinquency_data,
                 merge_done, ckpt, varsR>>
  /\ UNCHANGED <<varsA, varsM, chrome_init>>

\* both workers over enough banks for a stop between two downloads, in the
\* runs in which every attempt of scrape_bank saves its workbook
InitStop ==
  /\ selected_banks = SubSeq(BANKS, 1, MaxStopBanks)
  /\ InitA /\ InitB /\ InitNoMerge /\ audit = FALSE
  /\ chrome_init = ChromeInit(FALSE)

NextStop == (Next \/ DL_Stop) /\ attempt' = 0 /\ sbRet' # "failed"

SpecStop == InitStop /\ [][NextStop]_vars

\* both workers, every creation followed from its start to its end
InitCreate ==
  /\ selected_banks = SubSeq(BANKS, 1, MaxBanks)
  /\ InitA /\ InitB /\ InitNoMerge /\ audit = FALSE
  /\ chrome_init = ChromeInit(TRUE)

NextCreate == Next \/ A_CreateBegin \/ B_CreateBegin

SpecCreate == InitCreate /\ [][NextCreate]_vars


\* ========================================================= Merge inputs
MaxRows == 1
MaxKeys == 2
MaxApply == 2

RowNames == {<<"a", "S">>, <<"a", "b">>, <<>>}
PriorCells == {"None", " - ", "f1.5"}
CurrentCells == {"f0.0", "9.9"}
KeyNames == {<<"a">>, <<"a", "S">>, <<"b", "S">>}
DataPool == {[prior |-> "2.5", current |-> "-"],
             [prior |-> "0", current |-> ""]}

SheetRows == [name : RowNames, prior : PriorCells, current : CurrentCells]
Sheets == [hasPrior : BOOLEAN, hasCurrent : BOOLEAN,
           rows : UNION {[1..n -> SheetRows] : n \in 0..MaxRows}]
MapEntries == [key : KeyNames, prior : {d.prior : d \in DataPool},
               current : {d.current : d \in DataPool}]
\* a dict: its keys are distinct
Maps == {m \in UNION {[1..n -> {e \in MapEntries :
                                  [prior |-> e.prior, current |-> e.current]
                                    \in DataPool}] : n \in 0..MaxKeys} :
           \A i, j \in 1..Len(m) : i # j => m[i].key # m[j].key}

InitMerge ==
  /\ selected_banks = SubSeq(BANKS, 1, MaxBanks)
  /\ InitA /\ InitB /\ audit = FALSE
  /\ chrome_init = ChromeInit(FALSE)
  /\ sheet \in Sheets
  /\ delinquency_data_map \in Maps
  /\ appliedMaps = <<>>
  /\ patchRet = FALSE

\* one call of patch_excel_with_delinquency on the workbook
M_Patch ==
  /\ Len(appliedMaps) < MaxApply
  /\ sheet' = PatchSheet(sheet, delinquency_data_map)
  /\ patchRet' = PatchReturn(sheet, delinquency_data_map)
  /\ appliedMaps' = Append(appliedMaps, delinquency_data_map)
  /\ UNCHANGED delinquency_data_map

\* a later run extracts other values for the same banks
M_NewInput ==
  /\ appliedMaps # <<>>
  /\ appliedMaps[Len(appliedMaps)] = delinquency_data_map
  /\ \E d \in DataPool :
       /\ delinquency_data_map' =
            [k \in 1..Len(delinquency_data_map) |->
               [key |-> delinquency_data_map[k].key,
                prior |-> d.prior, current |-> d.current]]
       /\ delinquency_data_map' # delinquency_data_map
  /\ UNCHANGED <<sheet, appliedMaps, patchRet>>

NextMerge ==
  (M_Patch \/ M_NewInput) /\ UNCHANGED <<varsA, varsB, chrome_init>>

SpecMerge == InitMerge /\ [][NextMerge]_vars

\* both workers are threads that keep being scheduled
SpecLive ==
  /\ Init /\ [][Next]_vars
  /\ WF_vars(JobA /\ UNCHANGED <<selected_banks, varsB>>)
  /\ WF_vars(JobB /\ UNCHANGED varsA)

\* ============================================================ properties

\* browser sessions alive system-wide: the worker's, scrape_bank's, Job B's
SessionsAlive ==
  (IF driver = "alive" THEN 1 ELSE 0) + (IF sbDriver = "alive" THEN 1 ELSE 0)
  + (IF dlDriver = "alive" THEN 1 ELSE 0)

\* Job B holds a session or is in one of its browser-dependent phases
BrowserPhaseB ==
  dlDriver = "alive" \/ phaseB \in {"extracting", "downloading"}

\* C1 as stated: Job B creates its session and enters 'extracting' or
\* 'downloading' only after Job A has torn down its last session and set
\* chrome_phase_done.
C1_OnlyAfterSignal ==
  BrowserPhaseB =>
    chrome_phase_done /\ driver # "alive" /\ sbDriver # "alive"

\* C1 amended: Job B creates its session and enters 'extracting' or
\* 'downloading' only after Job A has set chrome_phase_done or after Job B's
\* hand-off wait has run into its time-out; and when chrome_phase_done is set
\* no session of Job A is alive.
C1_AfterSignalOrTimeout ==
  /\ BrowserPhaseB => (chrome_phase_done \/ "wait_timeout" \in logsB)
  /\ chrome_phase_done => (driver # "alive" /\ sbDriver # "alive")

\* Job B downloads with its own session after a hand-off without time-out
C1_HandedOver ==
  /\ dlDriver = "alive" /\ phaseB = "downloading"
  /\ chrome_phase_done /\ "wait_timeout" \notin logsB

\* C2: before Job A sets chrome_phase_done, at most one browser session is
\* alive system-wide.
C2_AtMostOneSession ==
  (pcA # "start" /\ ~chrome_phase_done) => SessionsAlive <= 1

AttemptBound == (MAX_RETRIES + 1) * (MAX_RETRY_ROUNDS + 1)

C4_OneResultPerTarget ==
  /\ \A i, j \in 1..Len(results) :
       i # j => results[i].bank # results[j].bank
  /\ \A i, j \in 1..Len(sharedResultsA) :
       i # j => sharedResultsA[i].bank # sharedResultsA[j].bank
  /\ \A i, j \in 1..Len(dlResults) :
       i # j => dlResults[i].name # dlResults[j].name
  /\ \A i, j \in 1..Len(sharedResultsB) :
       i # j => sharedResultsB[i].name # sharedResultsB[j].name

\* both jobs are over, a retry round has replaced a failed entry by a
\* success, and the downloader has recorded a result
C4_ReplacedInPlace ==
  /\ pcA = "end" /\ pcB = "b_end"
  /\ retry_round >= 2
  /\ \E k \in 1..Len(sharedResultsA) : sharedResultsA[k].success
  /\ dlResults # <<>>

\* C5: when a job has reached its terminal state, every selected target has
\* an entry in the results that job exposes.
C5_EveryTargetRecorded ==
  /\ pcA = "end" =>
       \A b \in SelectedSet :
         \E k \in 1..Len(sharedResultsA) : sharedResultsA[k].bank = b
  /\ pcB = "b_end" =>
       \A b \in SelectedSet :
         \E k \in 1..Len(sharedResultsB) : sharedResultsB[k].name = b

\* C6: in a run of Job A whose only failures are selection or extraction
\* failures, the phase is never 'error'; when the job is over the phase is
\* 'done', every selected target is recorded once, with success = False
\* exactly when no attempt wrote its workbook, and such a target has used all
\* its inline retries and retry rounds.
C6_FailedTargetNotJobError ==
  ~sawOtherFailure =>
    /\ phaseA # "error"
    /\ pcA = "end" =>
         /\ phaseA = "done"
         /\ Len(sharedResultsA) = Len(selected_banks)
         /\ \A k \in 1..Len(sharedResultsA) :
              /\ sharedResultsA[k].bank = selected_banks[k]
              /\ sharedResultsA[k].success <=> selected_banks[k] \in persisted
              /\ ~sharedResultsA[k].success =>
                   attempts[selected_banks[k]] = AttemptBound

\* the job is over with a target recorded as failed after selection or
\* extraction failures only
C6_FailedButDone ==
  /\ pcA = "end" /\ ~sawOtherFailure /\ phaseA = "done"
  /\ \E k \in 1..Len(sharedResultsA) : ~sharedResultsA[k].success

\* C7: an application of patch_excel_with_delinquency that follows an
\* application with the same map leaves every cell of the sheet as it was.
C7_SecondApplicationNoOp ==
  [][(/\ Len(appliedMaps') = Len(appliedMaps) + 1
      /\ appliedMaps # <<>>
      /\ appliedMaps[Len(appliedMaps)] = delinquency_data_map)
     => sheet' = sheet]_vars

\* the same map was applied twice to a sheet in which the merge filled a cell
C7_AppliedTwice ==
  /\ Len(appliedMaps) = 2 /\ appliedMaps[1] = appliedMaps[2]
  /\ \E r \in 1..Len(sheet.rows) : sheet.rows[r].prior = "f2.5"

\* a cell that is empty or shows one of the sentinels '', '-', '0', '0.0'
EmptyOrSentinel(v) == v \in {"None", "", "-", " - ", "0", "0.0", "f0.0"}

\* C8: an application changes a metric cell only in a matched row and only
\* when the cell was empty or a sentinel; names and all other cells stay.
C8_OnlyEmptyCellsChange ==
  [][/\ Len(sheet'.rows) = Len(sheet.rows)
     /\ \A r \in 1..Len(sheet.rows) :
          /\ sheet'.rows[r].name = sheet.rows[r].name
          /\ sheet'.rows[r].prior # sheet.rows[r].prior =>
               /\ EmptyOrSentinel(sheet.rows[r].prior)
               /\ MatchIndex(sheet.rows[r].name, delinquency_data_map) # 0
          /\ sheet'.rows[r].current # sheet.rows[r].current =>
               /\ EmptyOrSentinel(sheet.rows[r].current)
               /\ MatchIndex(sheet.rows[r].name, delinquency_data_map) # 0]_vars

\* a second application with other values has met a populated cell of a
\* matched row and left it
C8_PopulatedKept ==
  /\ Len(appliedMaps) = 2 /\ appliedMaps[1] # appliedMaps[2]
  /\ sheet.hasPrior
  /\ \E r \in 1..Len(sheet.rows) :
       /\ MatchIndex(sheet.rows[r].name, appliedMaps[2]) # 0
       /\ appliedMaps[2][MatchIndex(sheet.rows[r].name, appliedMaps[2])].prior
            = "2.5"
       /\ sheet.rows[r].prior = "f1.5"

\* C9: the hand-off wait counts 5-second sleeps up to 1800 seconds at most;
\* when it ends without the signal it has lasted 1800 seconds and the
\* time-out notice is logged; the worker then enters 'extracting' and creates
\* its session; if Job A never sets chrome_phase_done all this happens.
C9_WaitTimesOut ==
  /\ [](pcB = "b_wait" =>
          waited \in 0..HANDOFF_TIMEOUT /\ waited % HANDOFF_SLEEP = 0)
  /\ [][(pcB = "b_wait" /\ pcB' # "b_wait" /\ ~chrome_phase_done) =>
          /\ waited = HANDOFF_TIMEOUT
          /\ "wait_timeout" \in logsB'
          /\ pcB' = "b_downloader"]_vars
  /\ [][(pcB = "b_downloader" /\ pcB' # "b_downloader") =>
          (phaseB' = "extracting" /\ pcB' = "b_create")]_vars
  /\ ([]~chrome_phase_done) =>
       <>(phaseB = "extracting" /\ "wait_timeout" \in logsB)

\* Job B is in 'extracting' after a time-out, the signal never having come
C9_ProceededAfterTimeout ==
  /\ ~chrome_phase_done /\ "wait_timeout" \in logsB
  /\ phaseB = "extracting" /\ pcB = "b_create"

\* C10: with both workers scheduled fairly, _scraping_worker eventually sets
\* scraping_running to False and _disclosure_worker eventually sets running
\* to False: a state is reached in which both workers are over (neither
\* flag is set again).
C10_BothTerminate ==
  <>(pcA = "end" /\ ~scraping_running /\ pcB = "b_end" /\ ~running)

\* both workers are over although Job A never gave its signal
C10_EndedWithoutSignal ==
  /\ pcA = "end" /\ ~scraping_running
  /\ pcB = "b_end" /\ ~running
  /\ ~chrome_phase_done

\* C11: in a retry round scrape_bank is called only for a target whose
\* result is a failure; a target for which an attempt has written its
\* workbook is never passed to scrape_bank again.
C11_OnlyFailedRetried ==
  (pcA \in {"sb_create", "sb_pipeline"}) =>
    /\ sbBank \notin persisted
    /\ phaseA = "retrying" =>
         /\ retry_idx \in 1..Len(failed_indices)
         /\ results[failed_indices[retry_idx]].bank = sbBank
         /\ ~results[failed_indices[retry_idx]].success

\* a retry round is calling scrape_bank for a failed target while another
\* target of the run has already succeeded
C11_RetryBesideSuccess ==
  /\ phaseA = "retrying" /\ pcA = "sb_create"
  /\ persisted # {}
  /\ \E k \in 1..Len(results) : results[k].success

\* C12: a retry round is started only after the first pass, only with
\* retry_round in 1..MAX_RETRY_ROUNDS and only while some target's result is
\* a failure; retry_round never decreases and the end of a round advances
\* it, so at most MAX_RETRY_ROUNDS rounds are run.
C12_BoundedRounds ==
  /\ [][(pcA = "retry_round" /\ pcA' = "retry_loop") =>
          /\ idx = Len(selected_banks)
          /\ retry_round \in 1..MAX_RETRY_ROUNDS
          /\ \E k \in 1..Len(results) : ~results[k].success
          /\ failed_indices' # <<>>]_vars
  /\ [][retry_round' >= retry_round]_vars
  /\ [][(pcA = "retry_loop" /\ pcA' = "retry_round") =>
          retry_round' = retry_round + 1]_vars
  /\ [](pcA = "retry_loop" => retry_round \in 1..MAX_RETRY_ROUNDS)

\* the job is over after MAX_RETRY_ROUNDS rounds with a target still failing
\* and another one that needed no further round
C12_RoundsExhausted ==
  /\ pcA = "end" /\ retry_round = MAX_RETRY_ROUNDS + 1
  /\ \E k \in 1..Len(results) : ~results[k].success
  /\ \E k \in 1..Len(results) : results[k].success

\* positions of Job A at which a target's pipeline is still to be run
PipelineAhead ==
  {"loop", "recycle", "sb_create", "sb_pipeline", "sb_return",
   "retry_round", "retry_loop"}

\* positions of Job B at which its session is loaded, probed or driven
SessionInUseB == {"b_extract", "b_dl_loop", "b_dl_bank"}

C15_CreationExclusive ==
  /\ Cardinality(chrome_init.busy) <= 1
  /\ \A who \in chrome_init.busy : chrome_init.lock = who
  /\ chrome_init.busy = {} => chrome_init.lock = "free"


\* C16: a failed creation of a session fails only the target that asked for
\* it; the job is in phase 'error' only through a failure of its work after
\* the browser phase, never through a creation that failed at job start
\* (the hand-off signal is not yet set) or in a recycle (raised).
C16_CreationFailureNotJobError ==
  phaseA = "error" => (chrome_phase_done /\ ~raised)


\* the stages of the priority order, for the key at position k
ExactAt(bank_name, dm, k) == dm[k].key = bank_name

ContainedAt(bank_name, dm, k) ==
  Contains(dm[k].key, bank_name) \/ Contains(bank_name, dm[k].key)

StrippedAt(bank_name, dm, k) ==
  /\ Clean(dm[k].key) # <<>> /\ Clean(bank_name) # <<>>
  /\ \/ Contains(Clean(dm[k].key), Clean(bank_name))
     \/ Contains(Clean(bank_name), Clean(dm[k].key))

\* positions at which the best stage that matches anywhere matches
BestStage(bank_name, dm) ==
  LET K == 1..Len(dm)
      E == {k \in K : ExactAt(bank_name, dm, k)}
      C == {k \in K : ContainedAt(bank_name, dm, k)}
      T == {k \in K : StrippedAt(bank_name, dm, k)}
  IN IF E # {} THEN E ELSE IF C # {} THEN C ELSE T

\* C17: in every application of the patch, the key that resolves a row
\* matches at the earliest stage (exact, containment, containment after
\* stripping the suffix) at which any key of the map matches, and a row is
\* resolved whenever some key matches.
C17_MatcherPriority ==
  appliedMaps # <<>> =>
    LET dm == appliedMaps[Len(appliedMaps)]
    IN \A r \in 1..Len(sheet.rows) :
         LET bank_name == sheet.rows[r].name
             k == MatchIndex(bank_name, dm)
         IN bank_name # <<>> =>
              IF BestStage(bank_name, dm) = {} THEN k = 0
              ELSE k \in BestStage(bank_name, dm)


\* C18: the patch of the merge stage is applied only when Job A has set
\* summary_excel_path, and only once the poll is over: Job A has ended or
\* the poll has waited MERGE_WAIT_TIMEOUT; the poll sleeps MERGE_WAIT_SLEEP
\* at a time, only while Job A is running, and never beyond the time-out;
\* without the workbook the stage leaves the sheet and merge_done alone and
\* logs that the merge is skipped.
C18_MergeOnlyWithArtifact ==
  /\ [][appliedMaps' # appliedMaps =>
          /\ summary_excel_path
          /\ pcB \in {"b_merge_do", "b_merge_wait"}
          /\ pcB = "b_merge_wait" =>
               (~scraping_running \/ waited >= MERGE_WAIT_TIMEOUT)
          /\ merge_done']_vars
  /\ [][(pcB = "b_merge_wait" /\ pcB' = "b_merge_wait" /\ waited' # waited) =>
          /\ scraping_running
          /\ waited' = waited + MERGE_WAIT_SLEEP
          /\ waited' <= MERGE_WAIT_TIMEOUT]_vars
  /\ [][(pcB = "b_merge" /\ pcB' = "b_merge_do") => ~scraping_running]_vars
  /\ [][(pcB \in {"b_merge_do", "b_merge_wait"} /\ pcB' = "b_cleanup"
         /\ ~summary_excel_path) =>
          /\ UNCHANGED <<sheet, appliedMaps, merge_done>>
          /\ "merge_skipped" \in logsB']_vars
  /\ [](merge_done => summary_excel_path)

\* the merge was made after Job A ended with its workbook written
C18_MergedAfterJobA ==
  /\ pcB = "b_cleanup" /\ merge_done /\ appliedMaps # <<>>
  /\ summary_excel_path /\ ~scraping_running


\* C19: a stop request changes nothing but is_running and is never taken
\* back; the download that is in flight when it arrives ends with its result
\* appended for that bank and control back at the top of the loop; from the
\* top of the loop no download is started once is_running is false, the loop
\* is left instead.
C19_StopAtTargetBoundary ==
  /\ [][is_running' # is_running =>
          /\ ~is_running'
          /\ UNCHANGED <<pcB, dl_i, dlResults, bank_list, dlDriver>>]_vars
  /\ [][(~is_running /\ pcB = "b_dl_bank" /\ pcB' # pcB) =>
          /\ pcB' = "b_dl_loop"
          /\ dl_i' = dl_i + 1
          /\ Len(dlResults') = Len(dlResults) + 1
          /\ dlResults'[Len(dlResults')].name = bank_list[dl_i + 1]]_vars
  /\ [][(~is_running /\ pcB = "b_dl_loop" /\ pcB' # pcB) =>
          /\ pcB' = "b_report"
          /\ UNCHANGED <<dl_i, dlResults, dlDriver>>]_vars
  /\ [][(pcB = "b_dl_loop" /\ pcB' = "b_dl_bank") => is_running]_vars

\* the loop was left on a stop request with the first bank's result
\* recorded and the second bank never started
C19_StoppedAfterFirst ==
  /\ ~is_running /\ pcB = "b_report"
  /\ Len(bank_list) = 2 /\ dl_i = 1
  /\ Len(dlResults) = 1 /\ dlResults[1].name = bank_list[1]


\* Job A's progress entry: scraping_shared and its scraping_progress
EntryA ==
  <<phaseA, scraping_running, chrome_phase_done, sharedResultsA,
    summary_excel_path>>

\* Job B's progress entry: disclosure_shared and its progress
EntryB ==
  <<phaseB, running, logsB, sharedResultsB, delinquency_data, merge_done>>

C21_TwoOfThree ==
  /\ \A k \in 1..Len(results) :
       results[k].bank \notin persisted => ~results[k].success
  /\ (pcA = "end"
      /\ Cardinality(persisted) = Len(selected_banks) - 1) =>
       /\ phaseA = "done"
       /\ Len(sharedResultsA) = Len(selected_banks)
       /\ \A k \in 1..Len(selected_banks) :
            /\ sharedResultsA[k].bank = selected_banks[k]
            /\ sharedResultsA[k].success <=> selected_banks[k] \in persisted
            /\ selected_banks[k] \notin persisted =>
                 attempts[selected_banks[k]] =
                   (MAX_RETRIES + 1) * (1 + MAX_RETRY_ROUNDS)

\* the job is over: the first two targets succeeded at once, the third
\* failed in the first pass and in both rounds
C21_ScenarioEnded ==
  /\ pcA = "end" /\ phaseA = "done" /\ ~sawOtherFailure
  /\ Len(selected_banks) = 3 /\ Len(sharedResultsA) = 3
  /\ persisted = {selected_banks[1], selected_banks[2]}
  /\ attempts[selected_banks[1]] = 1 /\ attempts[selected_banks[2]] = 1
  /\ ~sharedResultsA[3].success
  /\ retry_round = MAX_RETRY_ROUNDS + 1


\* C22: one call of scrape_bank runs at most MAX_RETRIES + 1 iterations of
\* its attempt loop; an iteration's session exists only while its pipeline
\* runs: none is alive when the next iteration creates its session nor when
\* scrape_bank has returned, whatever the outcome of the attempt; and every
\* step that leaves the pipeline leaves no session behind.
C22_SessionPerAttempt ==
  /\ attempt \in 0..MAX_RETRIES
  /\ pcA = "sb_create" => sbDriver = "none"
  /\ pcA = "sb_return" => sbDriver = "none"
  /\ sbDriver = "alive" => (pcA = "sb_pipeline" /\ sbBank # "-")
  /\ pcA = "sb_pipeline" => sbDriver = "alive"

\* a call has used its last attempt after two retried ones and has returned a
\* failure with no session left
C22_LastAttemptReturned ==
  /\ pcA = "sb_return" /\ sbRet = "failed" /\ attempt = MAX_RETRIES
  /\ sbDriver = "none"
  /\ attempts[sbBank] >= MAX_RETRIES + 1


MaxResumeBanks == 3
MaxRuns == 3

\* local_only/disclosure_downloader.py:246-275  a run starts: a new
\* downloader, load_progress(), and the question whether to resume when
\* current_index > 0; a refusal resets the checkpoint
R_Start ==
  /\ pcB = "r_idle"
  /\ runs < MaxRuns
  /\ runs' = runs + 1
  /\ is_running' = TRUE
  /\ dlResults' = <<>>
  /\ \E resume \in BOOLEAN :
       IF progress.current_index > 0 /\ ~resume
       THEN /\ start_index' = 0
            /\ progress' = NoProgress
            /\ downloadLog' = <<>>
       ELSE /\ start_index' = progress.current_index
            /\ UNCHANGED ckpt
  /\ pcB' = "b_create"
  /\ UNCHANGED <<phaseB, running, waited, logsB, dlDriver, bank_list, dl_i,
                 sharedResultsB, delinquency_data, merge_done>>
  /\ UNCHANGED <<varsA, varsM, chrome_init>>

\* local_only/disclosure_downloader.py:277-288  no list: return; otherwise
\* bank_list = bank_list[start_index:]
R_Slice ==
  /\ pcB = "b_filter"
  /\ IF bank_list = <<>>
     THEN /\ pcB' = "r_finally"
          /\ UNCHANGED bank_list
     ELSE /\ bank_list' = SubSeq(bank_list, start_index + 1, Len(bank_list))
          /\ pcB' = "b_dl_loop"
  /\ dl_i' = 0
  /\ UNCHANGED <<phaseB, running, waited, logsB, dlDriver, dlResults,
                 sharedResultsB, delinquency_data, merge_done, is_running,
                 ckpt, varsR>>
  /\ UNCHANGED <<varsA, varsM, chrome_init>>

\* local_only/disclosure_downloader.py:304-313  download_all has returned:
\* create_report(), reset_progress()
R_Finish ==
  /\ pcB = "b_report"
  /\ progress' = NoProgress
  /\ downloadLog' = <<>>
  /\ pcB' = "r_finally"
  /\ UNCHANGED <<phaseB, running, waited, logsB, dlDriver, bank_list, dl_i,
                 dlResults, sharedResultsB, delinquency_data, merge_done,
                 is_running, varsR>>
  /\ UNCHANGED <<varsA, varsM, chrome_init>>

\* local_only/disclosure_downloader.py:327-330  an exception ends the run and
\* leaves the checkpoint as it is
R_Except ==
  /\ pcB = "b_except"
  /\ pcB' = "r_finally"
  /\ UNCHANGED <<phaseB, running, waited, logsB, dlDriver, bank_list, dl_i,
                 dlResults, sharedResultsB, delinquency_data, merge_done,
                 is_running, ckpt, varsR>>
  /\ UNCHANGED <<varsA, varsM, chrome_init>>

\* local_only/disclosure_downloader.py:332-338  finally: downloader.cleanup()
R_Finally ==
  /\ pcB = "r_finally"
  /\ dlDriver' = "none"
  /\ pcB' = "r_idle"
  /\ UNCHANGED <<phaseB, running, waited, logsB, bank_list, dl_i,
                 dlResults, sharedResultsB, delinquency_data, merge_done,
                 is_running, ckpt, varsR>>
  /\ UNCHANGED <<varsA, varsM, chrome_init>>

\* the desktop thread alone, run after run; the portal lists the same banks
\* in every run
InitResume ==
  /\ selected_banks = SubSeq(BANKS, 1, MaxResumeBanks)
  /\ InitA /\ InitNoMerge /\ audit = FALSE
  /\ pcB = "r_idle" /\ InitDownloader
  /\ chrome_init = ChromeInit(FALSE)

NextResume ==
  \/ R_Start
  \/ /\ \/ DL_CreateDriver \/ DL_LoopHead
     /\ UNCHANGED <<varsM, is_running, ckpt, varsR, varsA>>
  \/ /\ DL_ExtractBanks
     /\ pcB' = "b_filter" => bank_list' \in {selected_banks, <<>>}
     /\ UNCHANGED <<varsM, is_running, ckpt, varsR, varsA, chrome_init>>
  \/ R_Slice
  \/ DL_DownloadBank
       /\ UNCHANGED <<varsM, is_running, varsR, varsA, chrome_init>>
  \/ DL_Stop
  \/ R_Finish
  \/ R_Except
  \/ R_Finally

SpecResume == InitResume /\ [][NextResume]_vars

\* the names of a sequence occur once each
NoRepeat(s) == \A j, k \in 1..Len(s) : s[j] = s[k] => j = k

\* C24: across runs, interruptions and resumed runs, current_index equals the
\* number of targets of the full bank list processed since the checkpoint
\* was last reset, 'completed' holds exactly these targets once each, and no
\* target is downloaded twice nor passed over: the downloads are the first
\* targets of the full list in order, and a run that ends without a stop
\* request has downloaded them all.
C24_CheckpointExact ==
  /\ progress.current_index = Len(downloadLog)
  /\ progress.completed = downloadLog
  /\ NoRepeat(downloadLog)
  /\ Len(downloadLog) <= Len(selected_banks)
  /\ downloadLog = SubSeq(selected_banks, 1, Len(downloadLog))
  /\ (pcB = "b_report" /\ is_running) => downloadLog = selected_banks


\* C25: on every path by which _scraping_worker ends, chrome_phase_done is
\* True by the time scraping_running is False, so Job B is never waiting for
\* the hand-off signal of a Job A that has ended.
C25_SignalBeforeEnd ==
  /\ ~scraping_running => chrome_phase_done
  /\ (pcB = "b_wait" /\ ~chrome_phase_done) => scraping_running


\* C26: whenever _disclosure_worker has terminated (running is False), no
\* browser session created by its downloader is alive.
C26_NoSessionAfterEnd ==
  ~running => dlDriver # "alive"


\* C27: merge_done is True only if the Merge Step filled at least one metric
\* cell of Job A's report: it is not set when patch_excel_with_delinquency
\* returned False.
C27_MergeDoneMeansPatched ==
  merge_done => patchRet


\* C28: once both jobs have terminated with merge_done True and a patch that
\* filled a cell, the report still holds the values the Merge Step wrote:
\* applying the same map again would change nothing, because Job A did not
\* save its own rows over the merged workbook.
C28_MergeSurvives ==
  (pcA = "end" /\ pcB = "b_end" /\ merge_done /\ patchRet) =>
    sheet = PatchSheet(sheet, delinquency_data_map)


TerminalPhases == {"done", "error"}

\* C29: for each job, the running flag is False only if the job's phase is
\* 'done' or 'error'; the step that clears the flag finds or leaves the phase
\* terminal, and the phase does not change once the flag is cleared.
C29_TerminalPhaseWhenStopped ==
  /\ [](~scraping_running => phaseA \in TerminalPhases)
  /\ [](~running => phaseB \in TerminalPhases)
  /\ [][(~scraping_running => phaseA' = phaseA)
        /\ (~running => phaseB' = phaseB)]_vars

\* both workers have ended, Job A through its exception handler and Job B
\* through the exit for a list without any selected bank
C29_BothEnded ==
  /\ pcA = "end" /\ ~scraping_running /\ phaseA = "error"
  /\ pcB = "b_end" /\ ~running /\ phaseB = "done" /\ dlResults = <<>>


\* the relation between the two fields of a result and the workbooks saved
PathMatchesSuccess(rs) ==
  \A k \in 1..Len(rs) :
    /\ rs[k].success <=> rs[k].filepath # "None"
    /\ rs[k].success => rs[k].bank \in persisted

\* C30: in every state of Job A each recorded result, local or exposed, has
\* success = True exactly when its artifact path is set, and only a target
\* whose workbook was saved has a path; a target whose workbook was saved is
\* a success as soon as the call that saved it has been recorded, in the
\* first pass and in a retry round alike.
C30_SuccessIffPath ==
  /\ PathMatchesSuccess(results)
  /\ PathMatchesSuccess(sharedResultsA)
  /\ \A k \in 1..Len(results) :
       (results[k].bank \in persisted
        /\ ~(pcA = "sb_return" /\ sbBank = results[k].bank)) =>
         results[k].success

\* a retry round has turned the first target's failure into a success with a
\* path, while the second target is still a failure without one
C30_RetryUpdatedResult ==
  /\ phaseA = "retrying" /\ pcA = "retry_loop" /\ Len(results) = 2
  /\ results[1].success /\ results[1].filepath = "xlsx"
  /\ attempts[results[1].bank] > MAX_RETRIES + 1
  /\ ~results[2].success /\ results[2].filepath = "None"

====
